---- MODULE Spec2Model ----
(***************************************************************************)
(* Model of the Notes API of src/main.py: a FastAPI service whose handlers *)
(* read and write one SQLite table ("notes") through SQLAlchemy sessions,  *)
(* plus a summarize endpoint that calls a local generation service.        *)
(*                                                                         *)
(* Every handler is cut at its database statements and at the upstream     *)
(* call, so that requests served by different workers interleave the way   *)
(* thread-per-request execution lets them.  Spec runs one worker (requests *)
(* one after the other), SpecConc runs two.                                *)
(*                                                                         *)
(* Library behaviour the handlers rest on:                                 *)
(*  - Column(Integer, primary_key=True) on SQLite is INTEGER PRIMARY KEY   *)
(*    without AUTOINCREMENT: a new row gets max(id)+1, or 1 in an empty    *)
(*    table;                                                               *)
(*  - Session.commit() flushes: an INSERT for a pending object, a DELETE   *)
(*    for a deleted one, and for a persistent one an UPDATE that sets the  *)
(*    columns whose assigned value differs from the value the session      *)
(*    loaded (none differs: no statement).  An UPDATE that matches no row  *)
(*    raises StaleDataError; a DELETE that matches no row only warns;      *)
(*  - Session.refresh() re-reads the row and raises when it is gone;       *)
(*  - SQLite serialises writers, so a flush with its COMMIT is one step.   *)
(***************************************************************************)
EXTENDS Integers, Sequences, FiniteSets, TLC

VARIABLES
    store,     \* the notes table: id -> [title, content], for the ids present
    pc,        \* per worker: where its request stands
    req,       \* per worker: the request being served
    obj,       \* per worker: the ORM object its session holds
    reply,     \* per worker: what the upstream call returned (summarize)
    resp,      \* per worker: the response the handler produced
    session,   \* per worker: "none" | "open" | "closed"
    last,      \* what is remembered of the exchange completed most recently (history)
    created,   \* the ids create_note assigned, in order (history)
    deleted,   \* the ids delete_note succeeded on (history)
    budget     \* requests still to be issued (bound of the model)

vars == <<store, pc, req, obj, reply, resp, session, last, created, deleted, budget>>

----------------------------------------------------------------------------
(* Bounds *)

MaxRequests == 4
ConcRequests == 2
MaxId == 2
MaxTextLen == 2

----------------------------------------------------------------------------
(* Values *)

Workers == {"w1", "w2"}
SeqWorkers == {"w1"}

\* str values of title and content
Str == {"", "a"}

\* Optional[str] of NoteUpdate: None or a value
None == <<>>
Some(s) == <<s>>
Optional == {None} \cup {Some(s) : s \in Str}

\* note_id path parameters
NoteIds == 1 .. MaxId

\* characters of an upstream text; " " is whitespace
Chars == {" ", "x"}
IsSpace(c) == c = " "

RECURSIVE SeqsUpTo(_)
SeqsUpTo(n) ==
    IF n = 0 THEN {<<>>}
    ELSE LET shorter == SeqsUpTo(n - 1)
         IN  shorter \cup {Append(s, c) : s \in {t \in shorter : Len(t) = n - 1}, c \in Chars}

Texts == SeqsUpTo(MaxTextLen)

NoObj == [id |-> 0, title |-> "", content |-> ""]
NoReply == [kind |-> "none", cause |-> "", field |-> "", text |-> <<>>]
NoResp == [status |-> 0, kind |-> "none", detail |-> <<>>, notes |-> <<>>, summary |-> <<>>]
NoReq == [op |-> "none", id |-> 0, title |-> None, content |-> None]

\* what is remembered of a completed exchange: the operation and how it ended and,
\* of a create_note, what was submitted and the note that came back
Completed(rq, rs) ==
    [op |-> rq.op, status |-> rs.status, kind |-> rs.kind,
     title |-> IF rq.op = "create" THEN rq.title ELSE None,
     content |-> IF rq.op = "create" THEN rq.content ELSE None,
     notes |-> IF rq.op = "create" THEN rs.notes ELSE <<>>]
NoLast == Completed(NoReq, NoResp)

\* the requests of the HTTP surface
CreateRequests ==
    {[op |-> "create", id |-> 0, title |-> Some(t), content |-> Some(c)] : t \in Str, c \in Str}
UpdateRequests ==
    {[op |-> "update", id |-> i, title |-> t, content |-> c] :
        i \in NoteIds, t \in Optional, c \in Optional}
IdRequests ==
    {[op |-> o, id |-> i, title |-> None, content |-> None] :
        o \in {"read", "delete", "summarize"}, i \in NoteIds}
ListRequests == {[op |-> "list", id |-> 0, title |-> None, content |-> None]}
Requests == CreateRequests \cup UpdateRequests \cup IdRequests \cup ListRequests

\* what requests.post can come back with
UpstreamReplies ==
    {[kind |-> "exception", cause |-> c, field |-> "", text |-> <<>>] :
        c \in {"timeout", "refused"}}
    \cup {[kind |-> "status", cause |-> "", field |-> "", text |-> t] : t \in {<<>>, <<"x">>}}
    \cup {[kind |-> "ok", cause |-> "", field |-> f, text |-> <<>>] : f \in {"missing", "null"}}
    \cup {[kind |-> "ok", cause |-> "", field |-> "string", text |-> t] : t \in Texts}

----------------------------------------------------------------------------
(* Responses *)

NoteOut(id, row) == [id |-> id, title |-> row.title, content |-> row.content]

OkNote(n) ==
    [status |-> 200, kind |-> "note", detail |-> <<>>, notes |-> <<n>>, summary |-> <<>>]
OkList(ns) ==
    [status |-> 200, kind |-> "list", detail |-> <<>>, notes |-> ns, summary |-> <<>>]
OkDeleted ==
    [status |-> 200, kind |-> "detail", detail |-> <<"Note deleted">>, notes |-> <<>>,
     summary |-> <<>>]
OkSummary(n, s) ==
    [status |-> 200, kind |-> "summary", detail |-> <<>>, notes |-> <<n>>, summary |-> s]
HttpError(code, detail) ==
    [status |-> code, kind |-> "detail", detail |-> detail, notes |-> <<>>, summary |-> <<>>]
NotFound == HttpError(404, <<"Note not found">>)
\* an exception no handler catches: the server's plain 500
Unhandled ==
    [status |-> 500, kind |-> "text", detail |-> <<"Internal Server Error">>, notes |-> <<>>,
     summary |-> <<>>]

----------------------------------------------------------------------------
(* The table *)

Max(S) == CHOOSE m \in S : \A x \in S : x <= m

\* the id SQLite gives an inserted row
NextRowId(st) == IF DOMAIN st = {} THEN 1 ELSE Max(DOMAIN st) + 1

Insert(st, id, row) == [i \in DOMAIN st \cup {id} |-> IF i = id THEN row ELSE st[i]]
DeleteRow(st, id) == [i \in DOMAIN st \ {id} |-> st[i]]

\* db.query(Note).filter(Note.id == note_id).first()
QueryFirst(st, id) == IF id \in DOMAIN st THEN NoteOut(id, st[id]) ELSE NoObj

RECURSIVE RowsFrom(_, _)
RowsFrom(st, ids) ==
    IF ids = {} THEN <<>>
    ELSE LET m == CHOOSE i \in ids : \A j \in ids : i <= j
         IN  <<NoteOut(m, st[m])>> \o RowsFrom(st, ids \ {m})

\* QueryAll with a fault: first() where all() was meant
QueryAllFirstOnly(st) ==
    IF DOMAIN st = {} THEN <<>> ELSE SubSeq(RowsFrom(st, DOMAIN st), 1, 1)

\* db.query(Note).all(): the rows in rowid order
QueryAll(st) == RowsFrom(st, DOMAIN st)

----------------------------------------------------------------------------
(* Init *)

TypeOK ==
    /\ DOMAIN store \subseteq 1 .. MaxRequests
    /\ pc \in [Workers -> {"idle", "handler", "commit", "refresh", "upstream", "exit"}]
    /\ session \in [Workers -> {"none", "open", "closed"}]
    /\ budget \in 0 .. MaxRequests

\* the state all workers start in; budget and table are set by the specification
Idle ==
    /\ pc = [w \in Workers |-> "idle"]
    /\ req = [w \in Workers |-> NoReq]
    /\ obj = [w \in Workers |-> NoObj]
    /\ reply = [w \in Workers |-> NoReply]
    /\ resp = [w \in Workers |-> NoResp]
    /\ session = [w \in Workers |-> "none"]
    /\ last = NoLast
    /\ deleted = {}

\* Base.metadata.create_all on a new database file: the empty table
Init ==
    /\ Idle
    /\ store = <<>>
    /\ created = <<>>
    /\ budget = MaxRequests

\* the table as one create_note leaves it, for the requests that overlap
InitConc ==
    /\ Idle
    /\ \E t \in Str, c \in Str : store = Insert(<<>>, 1, [title |-> t, content |-> c])
    /\ created = <<1>>
    /\ budget = ConcRequests

----------------------------------------------------------------------------
(* get_db and the handlers *)

\* a request arrives: get_db opens its session and the handler starts
Begin(w) ==
    /\ pc[w] = "idle"
    /\ budget > 0
    /\ \E r \in Requests :
        req' = [req EXCEPT ![w] = r]
    /\ budget' = budget - 1
    /\ session' = [session EXCEPT ![w] = "open"]
    /\ pc' = [pc EXCEPT ![w] = "handler"]
    /\ UNCHANGED <<store, obj, reply, resp, last, created, deleted>>

\* the handler returned or raised: the response is fixed, get_db's finally is next
Return(w, r) ==
    /\ resp' = [resp EXCEPT ![w] = r]
    /\ pc' = [pc EXCEPT ![w] = "exit"]

\* NewNote with a fault: the two columns take each other's value
NewNoteSwapped(data) == [title |-> data.content[1], content |-> data.title[1]]

\* Note(title=note.title, content=note.content)
NewNote(data) == [title |-> data.title[1], content |-> data.content[1]]

\* create_note: db.add(db_note), db.commit()
CreateCommit(w) ==
    /\ pc[w] = "handler"
    /\ req[w].op = "create"
    /\ LET id == NextRowId(store)
           row == NewNote(req[w])
       IN  /\ store' = Insert(store, id, row)
           /\ obj' = [obj EXCEPT ![w] = NoteOut(id, row)]
           /\ created' = Append(created, id)
    /\ pc' = [pc EXCEPT ![w] = "refresh"]
    /\ UNCHANGED <<req, reply, resp, session, last, deleted, budget>>

\* db.refresh(note); return note
Refresh(w) ==
    /\ pc[w] = "refresh"
    /\ IF obj[w].id \in DOMAIN store
       THEN /\ obj' = [obj EXCEPT ![w] = QueryFirst(store, obj[w].id)]
            /\ Return(w, OkNote(QueryFirst(store, obj[w].id)))
       ELSE /\ obj' = obj
            /\ Return(w, Unhandled)
    /\ UNCHANGED <<store, req, reply, session, last, created, deleted, budget>>

\* read_notes
ReadNotes(w) ==
    /\ pc[w] = "handler"
    /\ req[w].op = "list"
    /\ Return(w, OkList(QueryAll(store)))
    /\ UNCHANGED <<store, req, obj, reply, session, last, created, deleted, budget>>

\* read_note
ReadNote(w) ==
    /\ pc[w] = "handler"
    /\ req[w].op = "read"
    /\ LET note == QueryFirst(store, req[w].id)
       IN  IF note = NoObj
           THEN /\ obj' = obj
                /\ Return(w, NotFound)
           ELSE /\ obj' = [obj EXCEPT ![w] = note]
                /\ Return(w, OkNote(note))
    /\ UNCHANGED <<store, req, reply, session, last, created, deleted, budget>>

\* update_note: the query and the None check
UpdateQuery(w) ==
    /\ pc[w] = "handler"
    /\ req[w].op = "update"
    /\ LET note == QueryFirst(store, req[w].id)
       IN  IF note = NoObj
           THEN /\ obj' = obj
                /\ Return(w, NotFound)
           ELSE /\ obj' = [obj EXCEPT ![w] = note]
                /\ resp' = resp
                /\ pc' = [pc EXCEPT ![w] = "commit"]
    /\ UNCHANGED <<store, req, reply, session, last, created, deleted, budget>>

\* ApplyUpdate with a fault: both columns are assigned whenever a title is provided
ApplyUpdateBoth(note, data) ==
    [id |-> note.id,
     title |-> IF data.title # None THEN data.title[1] ELSE note.title,
     content |-> IF data.title # None THEN data.title[1] ELSE note.content]

\* update_note: only the fields that are provided (not None) are assigned
ApplyUpdate(note, data) ==
    [id |-> note.id,
     title |-> IF data.title # None THEN data.title[1] ELSE note.title,
     content |-> IF data.content # None THEN data.content[1] ELSE note.content]

\* the flush of a persistent object: the UPDATE sets the columns whose assigned
\* value differs from the loaded one
FlushUpdate(st, loaded, assigned) ==
    [st EXCEPT ![loaded.id] =
        [title |-> IF assigned.title # loaded.title THEN assigned.title ELSE @.title,
         content |-> IF assigned.content # loaded.content THEN assigned.content ELSE @.content]]

\* update_note: the assignments and db.commit()
UpdateCommit(w) ==
    /\ pc[w] = "commit"
    /\ req[w].op = "update"
    /\ LET assigned == ApplyUpdate(obj[w], req[w])
       IN  IF assigned = obj[w]
           THEN \* nothing to flush
                /\ store' = store
                /\ resp' = resp
                /\ pc' = [pc EXCEPT ![w] = "refresh"]
           ELSE IF obj[w].id \notin DOMAIN store
           THEN \* the UPDATE matches no row: StaleDataError
                /\ store' = store
                /\ Return(w, Unhandled)
           ELSE /\ store' = FlushUpdate(store, obj[w], assigned)
                /\ resp' = resp
                /\ pc' = [pc EXCEPT ![w] = "refresh"]
    /\ UNCHANGED <<req, obj, reply, session, last, created, deleted, budget>>

\* DeleteQuery with a fault: no None check, db.delete(None) raises
DeleteQueryNoCheck(w) ==
    /\ pc[w] = "handler"
    /\ req[w].op = "delete"
    /\ LET note == QueryFirst(store, req[w].id)
       IN  IF note = NoObj
           THEN /\ obj' = obj
                /\ Return(w, Unhandled)
           ELSE /\ obj' = [obj EXCEPT ![w] = note]
                /\ resp' = resp
                /\ pc' = [pc EXCEPT ![w] = "commit"]
    /\ UNCHANGED <<store, req, reply, session, last, created, deleted, budget>>

\* delete_note: the query and the None check
DeleteQuery(w) ==
    /\ pc[w] = "handler"
    /\ req[w].op = "delete"
    /\ LET note == QueryFirst(store, req[w].id)
       IN  IF note = NoObj
           THEN /\ obj' = obj
                /\ Return(w, NotFound)
           ELSE /\ obj' = [obj EXCEPT ![w] = note]
                /\ resp' = resp
                /\ pc' = [pc EXCEPT ![w] = "commit"]
    /\ UNCHANGED <<store, req, reply, session, last, created, deleted, budget>>

\* delete_note: db.delete(note), db.commit()
DeleteCommit(w) ==
    /\ pc[w] = "commit"
    /\ req[w].op = "delete"
    /\ store' = DeleteRow(store, obj[w].id)
    /\ deleted' = deleted \cup {obj[w].id}
    /\ Return(w, OkDeleted)
    /\ UNCHANGED <<req, obj, reply, session, last, created, budget>>

\* summarize_note: the query and the None check
SummarizeQuery(w) ==
    /\ pc[w] = "handler"
    /\ req[w].op = "summarize"
    /\ LET note == QueryFirst(store, req[w].id)
       IN  IF note = NoObj
           THEN /\ obj' = obj
                /\ Return(w, NotFound)
           ELSE /\ obj' = [obj EXCEPT ![w] = note]
                /\ resp' = resp
                /\ pc' = [pc EXCEPT ![w] = "upstream"]
    /\ UNCHANGED <<store, req, reply, session, last, created, deleted, budget>>

\* str.strip()
RECURSIVE LStrip(_)
LStrip(s) == IF s # <<>> /\ IsSpace(Head(s)) THEN LStrip(Tail(s)) ELSE s
RECURSIVE RStrip(_)
RStrip(s) ==
    IF s # <<>> /\ IsSpace(s[Len(s)]) THEN RStrip(SubSeq(s, 1, Len(s) - 1)) ELSE s
\* Strip with a fault: the text is taken as it came
NoStrip(s) == s

Strip(s) == RStrip(LStrip(s))

\* data.get("response", "")
GetResponse(r) == IF r.field = "missing" THEN <<>> ELSE r.text

\* SummarizeResponse with a fault: requests.post outside the try
SummarizeResponseNoTry(note, r) ==
    IF r.kind = "exception" \/ r.field = "null"
    THEN Unhandled
    ELSE IF r.kind = "status"
    THEN HttpError(500, <<"Ollama error: ", r.text>>)
    ELSE LET summary_text == Strip(GetResponse(r))
         IN  IF summary_text = <<>>
             THEN HttpError(500, <<"No summary returned from Ollama.">>)
             ELSE OkSummary(note, summary_text)

\* summarize_note from the upstream call's outcome to the response
SummarizeResponse(note, r) ==
    IF r.kind = "exception"
    THEN HttpError(500, <<"Error connecting to Ollama: ", r.cause>>)
    ELSE IF r.kind = "status"
    THEN HttpError(500, <<"Ollama error: ", r.text>>)
    ELSE IF r.field = "null"
    THEN Unhandled  \* None has no strip()
    ELSE LET summary_text == Strip(GetResponse(r))
         IN  IF summary_text = <<>>
             THEN HttpError(500, <<"No summary returned from Ollama.">>)
             ELSE OkSummary(note, summary_text)

\* summarize_note: requests.post and what follows
SummarizeCall(w) ==
    /\ pc[w] = "upstream"
    /\ \E r \in UpstreamReplies :
        /\ reply' = [reply EXCEPT ![w] = r]
        /\ Return(w, SummarizeResponse(obj[w], r))
    /\ UNCHANGED <<store, req, obj, session, last, created, deleted, budget>>

\* CloseSession with a fault: db.close() after the yield, without try/finally
CloseSessionUnlessRaised(w, raised) ==
    IF raised THEN session ELSE [session EXCEPT ![w] = "closed"]

\* get_db's finally: db.close(), whether the handler returned or raised
CloseSession(w, raised) == [session EXCEPT ![w] = "closed"]

\* get_db after the yield: the session is closed, the request is complete
GetDbExit(w) ==
    /\ pc[w] = "exit"
    /\ session' = CloseSession(w, resp[w].status # 200)
    /\ last' = Completed(req[w], resp[w])
    /\ pc' = [pc EXCEPT ![w] = "idle"]
    /\ req' = [req EXCEPT ![w] = NoReq]
    /\ obj' = [obj EXCEPT ![w] = NoObj]
    /\ reply' = [reply EXCEPT ![w] = NoReply]
    /\ resp' = [resp EXCEPT ![w] = NoResp]
    /\ UNCHANGED <<store, created, deleted, budget>>

Step(w) ==
    \/ Begin(w)
    \/ CreateCommit(w)
    \/ Refresh(w)
    \/ ReadNotes(w)
    \/ ReadNote(w)
    \/ UpdateQuery(w)
    \/ UpdateCommit(w)
    \/ DeleteQuery(w)
    \/ DeleteCommit(w)
    \/ SummarizeQuery(w)
    \/ SummarizeCall(w)
    \/ GetDbExit(w)

Next == \E w \in SeqWorkers : Step(w)
NextConc == \E w \in Workers : Step(w)

Spec == Init /\ [][Next]_vars
SpecConc == InitConc /\ [][NextConc]_vars

----------------------------------------------------------------------------
(* Properties *)

\* worker w takes a step of its request
Moves(w) == pc'[w] # pc[w]

\* the handler of w answers in this step
Answers(w) == pc[w] # "exit" /\ pc'[w] = "exit"

\* C1: note ids are never reused: the id create_note assigns differs from the
\* id of every note created earlier, deleted or not.
C1_IdsNeverReused ==
    \A i, j \in 1 .. Len(created) : i # j => created[i] # created[j]

\* C2: once delete_note has succeeded on an id, every later read_note,
\* update_note and delete_note on that id answers NotFound.
C2_DeletedStaysNotFound ==
    [][\A w \in Workers :
        (/\ pc[w] = "handler"
         /\ req[w].op \in {"read", "update", "delete"}
         /\ req[w].id \in deleted
         /\ Moves(w))
        => resp'[w] = NotFound]_vars

\* the rows other than id are as they were and no row came or went
OthersUnchanged(id) ==
    /\ DOMAIN store' = DOMAIN store
    /\ \A i \in DOMAIN store : i # id => store'[i] = store[i]

\* C3: update_note on an existing id changes only the fields supplied in the
\* request (title alone: content stays; content alone: title stays; neither:
\* the note stays and is still returned); the id and all other notes stay.
C3_UpdateChangesOnlySupplied ==
    [][\A w \in Workers :
        (req[w].op = "update" /\ req[w].id \in DOMAIN store)
        => /\ OthersUnchanged(req[w].id)
           /\ req[w].title = None => store'[req[w].id].title = store[req[w].id].title
           /\ req[w].content = None => store'[req[w].id].content = store[req[w].id].content
           /\ Answers(w) =>
                resp'[w] = OkNote(NoteOut(req[w].id, store[req[w].id]))]_vars

\* an update with only the title supplied has answered: the title is the new
\* one, the content is still the other value
C3_Witness ==
    \E w \in Workers :
        /\ pc[w] = "exit"
        /\ req[w].op = "update"
        /\ req[w].title = Some("a")
        /\ req[w].content = None
        /\ resp[w].status = 200
        /\ store[req[w].id] = [title |-> "a", content |-> ""]

\* C4: create_note returns a note with an assigned id, and a read_note on that
\* id issued next returns that id with the title and content submitted.
C4_CreateGetRoundTrip ==
    [][/\ last'.op = "create" =>
            /\ last'.status = 200
            /\ last'.kind = "note"
            /\ last'.notes[1].id >= 1
       /\ \A w \in Workers :
            (/\ last.op = "create"
             /\ req[w].op = "read"
             /\ req[w].id = last.notes[1].id
             /\ Answers(w))
            => resp'[w] = OkNote([id |-> req[w].id,
                                  title |-> last.title[1],
                                  content |-> last.content[1]])]_vars

\* a read of the note just created, with title and content that differ, has answered
C4_Witness ==
    \E w \in Workers :
        /\ pc[w] = "exit"
        /\ req[w].op = "read"
        /\ last.op = "create"
        /\ req[w].id = last.notes[1].id
        /\ last.title # last.content
        /\ resp[w].status = 200

\* C5: read_notes returns exactly the notes created and not yet deleted, each
\* id once; after N creates and no delete it returns N notes.
C5_ListIsTheTable ==
    \A w \in Workers :
        (pc[w] = "exit" /\ req[w].op = "list")
        => LET ns == resp[w].notes
           IN  /\ resp[w].status = 200
               /\ resp[w].kind = "list"
               /\ \A i, j \in 1 .. Len(ns) : i # j => ns[i].id # ns[j].id
               /\ {ns[i] : i \in 1 .. Len(ns)} = {NoteOut(i, store[i]) : i \in DOMAIN store}
               /\ {ns[i].id : i \in 1 .. Len(ns)}
                    = {created[i] : i \in 1 .. Len(created)} \ (deleted \ DOMAIN store)
               /\ deleted = {} => Len(ns) = Len(created)

\* read_notes has answered with three notes after three creates and no delete
C5_Witness ==
    \E w \in Workers :
        /\ pc[w] = "exit"
        /\ req[w].op = "list"
        /\ deleted = {}
        /\ Len(created) = 3
        /\ Len(resp[w].notes) = 3

\* C6: read_note, update_note and delete_note on an id that is not in the store
\* answer NotFound, never a server error, and leave the store unchanged.
C6_MissingIdIsNotFound ==
    [][\A w \in Workers :
        /\ (/\ pc[w] = "handler"
            /\ req[w].op \in {"read", "update", "delete"}
            /\ req[w].id \notin DOMAIN store
            /\ Moves(w))
           => /\ resp'[w] = NotFound
              /\ pc'[w] = "exit"
              /\ store' = store
        /\ (pc[w] = "exit" /\ resp[w] = NotFound /\ Moves(w)) => store' = store]_vars

\* a delete on the empty store has answered NotFound
C6_Witness ==
    \E w \in Workers :
        /\ pc[w] = "exit"
        /\ req[w].op = "delete"
        /\ resp[w] = NotFound
        /\ store = <<>>

\* C7: summarize_note on an existing note whose upstream call times out or
\* cannot be reached answers 500 with a detail naming the connection failure,
\* and the request leaves every note of the store as it was.
C7_UpstreamUnavailable ==
    [][\A w \in Workers :
        (req[w].op = "summarize" \/ req'[w].op = "summarize")
        => /\ store' = store
           /\ reply'[w].kind = "exception"
              => resp'[w] = HttpError(500, <<"Error connecting to Ollama: ", reply'[w].cause>>)]_vars

\* a summarize whose upstream call timed out has answered
C7_Witness ==
    \E w \in Workers :
        /\ pc[w] = "exit"
        /\ req[w].op = "summarize"
        /\ req[w].id \in DOMAIN store
        /\ reply[w].kind = "exception"
        /\ reply[w].cause = "timeout"
        /\ resp[w].status = 500

AllSpace(t) == \A k \in 1 .. Len(t) : IsSpace(t[k])

\* s is t without its leading and trailing whitespace
IsTrimOf(s, t) ==
    /\ s # <<>>
    /\ ~IsSpace(s[1])
    /\ ~IsSpace(s[Len(s)])
    /\ \E i \in 0 .. Len(t) :
        /\ i + Len(s) <= Len(t)
        /\ SubSeq(t, i + 1, i + Len(s)) = s
        /\ \A k \in 1 .. Len(t) : (k <= i \/ k > i + Len(s)) => IsSpace(t[k])

C8_WitnessTrimmed ==
    \E w \in Workers :
        /\ pc[w] = "exit"
        /\ req[w].op = "summarize"
        /\ reply[w].text = <<" ", "x">>
        /\ resp[w].summary = <<"x">>

\* C9: every request gets its own session at entry, and on every exit path
\* (success, NotFound, a summarization failure, an exception raised in the
\* handler) the session is closed by the time the request completes.
C9_SessionReleased ==
    \A w \in Workers :
        /\ pc[w] = "idle" => session[w] # "open"
        /\ pc[w] # "idle" => session[w] = "open"

\* two overlapping requests have completed, the later one through an exception
\* raised in its handler (the row its UPDATE was for had been deleted)
C9_Witness ==
    /\ last.op = "update"
    /\ last.status = 500
    /\ last.kind = "text"
    /\ \A w \in Workers : pc[w] = "idle" /\ session[w] = "closed"

\* C10: of two overlapping update_note requests on one id, the one that commits
\* last ends without an error and leaves, in each field both supplied, its own
\* value.
C10_LastWriterWins ==
    [][\A w, v \in Workers :
        (/\ w # v
         /\ req[w].op = "update"
         /\ req[v].op = "update"
         /\ req[v].id = req[w].id
         /\ pc[w] = "commit"
         /\ pc[v] \in {"refresh", "exit"}
         /\ resp[v] # Unhandled
         /\ Moves(w))
        => /\ pc'[w] = "refresh"
           /\ (req[w].title # None /\ req[v].title # None)
                => store'[req[w].id].title = req[w].title[1]
           /\ (req[w].content # None /\ req[v].content # None)
                => store'[req[w].id].content = req[w].content[1]]_vars

====
